---- MODULE Spec2Model ----
(***************************************************************************)
(* Goal Guardian: the weekly accounting of src/App.tsx (last revision,     *)
(* lines 616-1001), the task list of components/TaskList.tsx               *)
(* (src/unnamed/part_006, lines 1-497) and services/geminiService.ts       *)
(* (src/unnamed/part_001).                                                 *)
(*                                                                         *)
(* Units.  Hours are counted in tenths of an hour (the screen-time input   *)
(* has step 0.1, the duration input step 0.5), ratings in tenths of a      *)
(* point.  Calendar days are numbered from Monday 2018-01-01 (day 0); an   *)
(* instant is a number of hours since 2018-01-01 00:00 UTC.                *)
(***************************************************************************)
EXTENDS Integers, Sequences, FiniteSets, TLC

\* ------------------------------------------------------------------------
\* Calendar (what the JavaScript Date object computes in local time)
\* ------------------------------------------------------------------------

LastYear == 2029
Years == 2018..LastYear

IsLeap(y) == (y % 4 = 0 /\ y % 100 # 0) \/ y % 400 = 0

DaysInYear(y) == IF IsLeap(y) THEN 366 ELSE 365

RECURSIVE DaysBeforeYear(_)
DaysBeforeYear(y) == IF y <= 2018 THEN 0 ELSE DaysBeforeYear(y - 1) + DaysInYear(y - 1)

YearStartTable == [y \in 2018..(LastYear + 1) |-> DaysBeforeYear(y)]

\* new Date(y, 0, 1): the day number of January 1 of year y
YearStartDay(y) == YearStartTable[y]

\* d.getFullYear()
getFullYear(day) == CHOOSE y \in Years : YearStartDay(y) <= day /\ day < YearStartDay(y + 1)

\* d.getDay(): 0 = Sunday .. 6 = Saturday (day 0 is a Monday)
getDay(day) == (day + 1) % 7

DaysBeforeMonth(y, m) ==
    LET cum == <<0, 31, 59, 90, 120, 151, 181, 212, 243, 273, 304, 334>>
    IN cum[m] + (IF m > 2 /\ IsLeap(y) THEN 1 ELSE 0)

\* new Date(y, m - 1, dom), as a day number
DayOf(y, m, dom) == YearStartDay(y) + DaysBeforeMonth(y, m) + dom - 1

\* the n-th Sunday of month m of year y
NthSunday(y, m, n) ==
    LET first == DayOf(y, m, 1)
    IN first + ((7 - getDay(first)) % 7) + 7 * (n - 1)

\* The time zones of the browser: one without daylight saving, one with the
\* northern rule (second Sunday of March 02:00 to first Sunday of November
\* 02:00), one with the southern rule (first Sunday of October 02:00 to first
\* Sunday of April 03:00).
Zones == {"UTC", "America/New_York", "Australia/Sydney"}

\* Daylight-saving shift (hours) in force at local midnight of a day
DstAtMidnight(tz, day) ==
    LET y == getFullYear(day)
    IN CASE tz = "America/New_York" ->
              IF NthSunday(y, 3, 2) < day /\ day <= NthSunday(y, 11, 1) THEN 1 ELSE 0
         [] tz = "Australia/Sydney" ->
              IF day <= NthSunday(y, 4, 1) \/ day > NthSunday(y, 10, 1) THEN 1 ELSE 0
         [] OTHER -> 0

\* d.getTime() of the Date holding local midnight of a day, in hours (up to
\* the zone's constant standard offset, which cancels in every difference)
MidnightTime(tz, day) == day * 24 - DstAtMidnight(tz, day)

\* Math.ceil(a / b) for b > 0
CeilDiv(a, b) == IF a % b = 0 THEN a \div b ELSE (a \div b) + 1

\* ------------------------------------------------------------------------
\* Week identifiers: the string YYYY-Www as its sequence of character codes
\* ------------------------------------------------------------------------

Digit(n) == 48 + n

\* an identifier whose week number is not padded to two digits
FormatWeekIdUnpadded(y, w) ==
    <<Digit(y \div 1000), Digit((y \div 100) % 10), Digit((y \div 10) % 10), Digit(y % 10),
      45, 87>>
    \o (IF w < 10 THEN <<Digit(w)>> ELSE <<Digit(w \div 10), Digit(w % 10)>>)

\* `${year}-W${String(weekNo).padStart(2, '0')}`
FormatWeekId(y, w) ==
    <<Digit(y \div 1000), Digit((y \div 100) % 10), Digit((y \div 10) % 10), Digit(y % 10),
      45, 87>>
    \o (IF w < 10 THEN <<Digit(0), Digit(w)>> ELSE <<Digit(w \div 10), Digit(w % 10)>>)

RECURSIVE ParseInt(_)
\* parseInt(s, 10) of a string of digits
ParseInt(s) == IF s = <<>> THEN 0 ELSE ParseInt(SubSeq(s, 1, Len(s) - 1)) * 10 + (s[Len(s)] - 48)

\* weekId.split('-W')
SplitYear(weekId) == ParseInt(SubSeq(weekId, 1, 4))
SplitWeek(weekId) == ParseInt(SubSeq(weekId, 7, Len(weekId)))

\* getWeekIdFromDate, on the local calendar day of the date
getWeekIdFromDate(tz, day) ==
    LET dow == IF getDay(day) = 0 THEN 7 ELSE getDay(day)
        d == day + 4 - dow
        yearStart == YearStartDay(getFullYear(d))
        elapsed == MidnightTime(tz, d) - MidnightTime(tz, yearStart)
        weekNo == CeilDiv(elapsed + 24, 24 * 7)
    IN FormatWeekId(getFullYear(d), weekNo)

\* getPreviousWeekId
getPreviousWeekId(tz, weekId) ==
    LET y == SplitYear(weekId)
        w == SplitWeek(weekId)
        d == DayOf(y, 1, 4) + (w - 1) * 7 - 7
    IN getWeekIdFromDate(tz, d)

RECURSIVE StrLess(_, _)
\* a.localeCompare(b) < 0 for strings of digits, '-' and 'W'
StrLess(a, b) ==
    IF a = <<>> THEN b # <<>>
    ELSE IF b = <<>> THEN FALSE
    ELSE IF a[1] # b[1] THEN a[1] < b[1]
    ELSE StrLess(Tail(a), Tail(b))

\* ------------------------------------------------------------------------
\* Scoring (services/geminiService.ts)
\* ------------------------------------------------------------------------

\* a clamp that lets a rating above 10 through
ClampAtZeroOnly(num, den) == IF num <= 0 THEN 0 ELSE num

\* Math.max(0, Math.min(10, finalRating)), on the numerator of a rating of
\* num / den tenths (den > 0)
Clamp(num, den) == IF num <= 0 THEN 0 ELSE IF num >= 100 * den THEN 100 * den ELSE num

\* parseFloat(finalRating.toFixed(1)) of a rating of num / den tenths: the
\* tenths nearest to the double.  The program computes in doubles, so a
\* quotient that lies exactly midway between two tenths is rounded up or
\* down as the rounding error of the double falls (1 / 8 * 10 gives 1.3,
\* 0.3 / 0.8 * 10 gives 3.7): at a midway value either result is allowed for.
toFixed1(num, den) ==
    LET up == (2 * num + den) \div (2 * den)
    IN IF (2 * num + den) % (2 * den) = 0 /\ up > 0 THEN {up - 1, up} ELSE {up}

\* calculateWeeklyRating, in tenths of a point, from tenths of hours: the
\* results of (completed / goal) * 10 - 0.5 per hour of screen time above 14,
\* clamped to [0, 10], toFixed(1)
calculateWeeklyRating(completedHours, goalHours, screenTimeHours) ==
    IF goalHours = 0 THEN {0}
    ELSE LET penalty == IF screenTimeHours > 140 THEN screenTimeHours - 140 ELSE 0
             \* the rating in tenths is num / den, with den > 0
             sign == IF goalHours < 0 THEN -1 ELSE 1
             num == sign * (200 * completedHours - goalHours * penalty)
             den == sign * 2 * goalHours
         IN toFixed1(Clamp(num, den), den)

\* ------------------------------------------------------------------------
\* Week window and completed-hours aggregate (fetchUserData, step 4)
\* ------------------------------------------------------------------------

\* the local calendar day of an instant (hours, in the zone's standard time):
\* the last day whose local midnight is not after the instant
LocalDay(tz, instant) ==
    LET d == instant \div 24
    IN IF MidnightTime(tz, d + 1) <= instant THEN d + 1 ELSE d

\* monday / nextMonday of fetchUserData: [Monday 00:00, next Monday 00:00)
WeekWindow(tz, now) ==
    LET today == LocalDay(tz, now)
        currentDay == getDay(today)
        distanceToMonday == IF currentDay = 0 THEN 6 ELSE currentDay - 1
        monday == today - distanceToMonday
    IN <<MidnightTime(tz, monday), MidnightTime(tz, monday + 7)>>

RECURSIVE SumDurations(_)
SumDurations(ts) == IF ts = <<>> THEN 0 ELSE Head(ts).durationHours + SumDurations(Tail(ts))

\* a filter that also takes the tasks completed at nextMonday
InWindowVerifiedInclusive(t, window) ==
    /\ t.status = "VERIFIED"
    /\ t.completedAt # 0
    /\ t.completedAt >= window[1]
    /\ t.completedAt <= window[2]

\* the filter of actualCompletedHours
InWindowVerified(t, window) ==
    /\ t.status = "VERIFIED"
    /\ t.completedAt # 0
    /\ t.completedAt >= window[1]
    /\ t.completedAt < window[2]

\* actualCompletedHours
ActualCompletedHours(ts, window) ==
    SumDurations(SelectSeq(ts, LAMBDA t : InWindowVerified(t, window)))

\* ------------------------------------------------------------------------
\* Streak (fetchUserData, streak calculation)
\* ------------------------------------------------------------------------

RECURSIVE InsertDesc(_, _)
\* insert e into a list sorted by b.weekId.localeCompare(a.weekId), after its equals
InsertDesc(e, sorted) ==
    IF sorted = <<>> THEN <<e>>
    ELSE IF StrLess(Head(sorted).weekId, e.weekId) THEN <<e>> \o sorted
    ELSE <<Head(sorted)>> \o InsertDesc(e, Tail(sorted))

RECURSIVE SortDesc(_)
\* [...formattedHistory].sort((a, b) => b.weekId.localeCompare(a.weekId)), a stable sort
SortDesc(h) == IF h = <<>> THEN <<>> ELSE InsertDesc(h[Len(h)], SortDesc(SubSeq(h, 1, Len(h) - 1)))

RECURSIVE StreakWalk(_, _, _, _)
\* the for loop over reversedHistory
StreakWalk(tz, entries, checkWeekId, streak) ==
    IF entries = <<>> THEN streak
    ELSE IF Head(entries).weekId # checkWeekId THEN streak
    ELSE IF Head(entries).completedHours >= Head(entries).goalHours
         THEN StreakWalk(tz, Tail(entries), getPreviousWeekId(tz, checkWeekId), streak + 1)
    ELSE streak

\* a walk that moves to the previous week only when the current week met its goal
WalkStartOnlyWhenMet(tz, currentWeekId, currentStatsObj) ==
    IF currentStatsObj.completedHours >= currentStatsObj.goalHours
    THEN getPreviousWeekId(tz, currentWeekId)
    ELSE currentWeekId

\* the week identifier the history walk starts at (both branches of the
\* current-week check move to the previous week)
WalkStart(tz, currentWeekId, currentStatsObj) ==
    IF currentStatsObj.completedHours >= currentStatsObj.goalHours
    THEN getPreviousWeekId(tz, currentWeekId)
    ELSE getPreviousWeekId(tz, currentWeekId)

\* the streak fetchUserData computes
ComputeStreak(tz, currentWeekId, currentStatsObj, formattedHistory) ==
    StreakWalk(tz, SortDesc(formattedHistory), WalkStart(tz, currentWeekId, currentStatsObj),
               IF currentStatsObj.completedHours >= currentStatsObj.goalHours THEN 1 ELSE 0)

\* ------------------------------------------------------------------------
\* The session: client state (App, TaskList), the tables, requests in flight
\* ------------------------------------------------------------------------

VARIABLES
    dbTasks,      \* table tasks of the user, newest first (order created_at desc)
    dbStats,      \* rows of weekly_stats of the user for the current week
    dbHistory,    \* rows of weekly_stats of the user for the other weeks, week_id ascending
    dbGoal,       \* profiles.weekly_goal_hours of the user
    user,         \* App state user
    lsUser,       \* localStorage item focusforge_user
    stats,        \* App state stats
    tasks,        \* App state tasks
    isLoading,    \* App state isLoading
    procs,        \* calls of async handlers that have not ended, with their closures
    nCreated,     \* tasks created in the session
    nSubmits,     \* proofs submitted in the session
    nScreen,      \* screen-time submissions of the session
    nReloads,     \* page reloads of the session
    nDeletes,     \* tasks deleted in the session
    nFail,        \* requests to the tables that have failed
    fnIn,         \* input of the pure-function specifications
    fnOut         \* their output

sysVars == <<dbTasks, dbStats, dbHistory, dbGoal, user, lsUser, stats, tasks, isLoading,
             procs, nCreated, nSubmits, nScreen, nReloads, nDeletes, nFail>>
vars == <<dbTasks, dbStats, dbHistory, dbGoal, user, lsUser, stats, tasks, isLoading,
          procs, nCreated, nSubmits, nScreen, nReloads, nDeletes, nFail, fnIn, fnOut>>

\* bounds of the session
MaxCreates == 1
MaxSubmits == 2
MaxScreen == 1
MaxReloads == 1
MaxRows == 2
MaxFailures == 1
MaxOps == 2
MaxInFlight == 2

\* the browser's zone and clock of the session: Wednesday 2024-03-13 12:00
SessionZone == "UTC"
NowT == DayOf(2024, 3, 13) * 24 + 12
\* an instant of the week before
LastWeekT == NowT - 7 * 24

\* getCurrentWeekId()
getCurrentWeekId == getWeekIdFromDate(SessionZone, LocalDay(SessionZone, NowT))

\* [monday, nextMonday) of the session's clock
SessionWindow == WeekWindow(SessionZone, NowT)

\* let currentUserGoal = 80
DefaultGoal == 800
\* Math.abs(...) > 0.1
Tolerance == 1

NoUser == [present |-> FALSE, weeklyGoalHours |-> 0, currentStreak |-> 0]
NoStats == [present |-> FALSE, weekId |-> <<>>, goalHours |-> 0, completedHours |-> 0,
            screenTimeHours |-> 0, rating |-> 0]
Pending == [st |-> "pending", data |-> <<>>]
Failed == [st |-> "error", data |-> <<>>]
Ok(d) == [st |-> "ok", data |-> d]

\* a call in flight: kind and position (pid tells apart the calls of one kind:
\* the submission, reload or creation that started the call), the state its closure captured (user,
\* stats), its arguments and the answers it has received
NoProc == [pid |-> 0, kind |-> "", pc |-> "", orphan |-> FALSE, u |-> NoUser, s |-> NoStats,
           id |-> 0, hours |-> 0, status |-> "", completedAt |-> 0, proofImage |-> FALSE,
           rejectionReason |-> "", rating |-> 0, goalHours |-> 0,
           tasksRes |-> Pending, statsRes |-> Pending]

Abs(x) == IF x < 0 THEN -x ELSE x

\* prev.map(t => t.id === id ? f(t) : t), with changed[i] = f(ts[i])
MapTask(ts, id, changed) == [i \in 1..Len(ts) |-> IF ts[i].id = id THEN changed[i] ELSE ts[i]]

\* the user may still act: the session's operations are bounded, and the user
\* starts one only while fewer than MaxInFlight calls are in flight
OpsLeft ==
    /\ nCreated + nSubmits + nScreen + nReloads + nDeletes < MaxOps
    /\ Cardinality(procs) < MaxInFlight

\* the main views (TaskList, ScreenTimeUpload) are rendered
UIVisible == user.present /\ ~isLoading /\ stats.present

\* fetchUserData up to its await: setIsLoading(true) and four reads issued
FetchCall(pid, u) == [NoProc EXCEPT !.pid = pid, !.kind = "fetch", !.pc = "reads", !.u = u]

\* ------------------------------------------------------------------------
\* fetchUserData
\* ------------------------------------------------------------------------

\* a request to the tables fails (a bounded number of times in a session)
Fail(ok) == IF ok THEN nFail' = nFail ELSE nFail < MaxFailures /\ nFail' = nFail + 1

\* .single(): the row when exactly one row matches, no data otherwise
Single(rows) == IF Len(rows) = 1 THEN Ok(rows[1]) ELSE Failed

\* the read of table tasks is answered (data, or no data on an error)
ServeTasksRead(p, ok) ==
    /\ p \in procs /\ p.kind = "fetch" /\ p.tasksRes = Pending
    /\ procs' = (procs \ {p}) \cup {[p EXCEPT !.tasksRes = IF ok THEN Ok(dbTasks) ELSE Failed]}
    /\ Fail(ok)
    /\ UNCHANGED <<dbTasks, dbStats, dbHistory, dbGoal, user, lsUser, stats, tasks, isLoading,
                   nCreated, nSubmits, nScreen, nReloads, nDeletes, fnIn, fnOut>>

\* the read of the current week's weekly_stats row is answered
ServeStatsRead(p, ok) ==
    /\ p \in procs /\ p.kind = "fetch" /\ p.statsRes = Pending
    /\ procs' = (procs \ {p}) \cup {[p EXCEPT !.statsRes = IF ok THEN Single(dbStats) ELSE Failed]}
    /\ Fail(ok)
    /\ UNCHANGED <<dbTasks, dbStats, dbHistory, dbGoal, user, lsUser, stats, tasks, isLoading,
                   nCreated, nSubmits, nScreen, nReloads, nDeletes, fnIn, fnOut>>

\* let currentUserGoal = 80; if (profileRes.data && user) currentUserGoal = ... || 80
CurrentUserGoal(u, profileOk, goal) ==
    IF profileOk /\ u.present THEN (IF goal = 0 THEN DefaultGoal ELSE goal) ELSE DefaultGoal

\* a check that already heals a difference of exactly the tolerance
NeedsHealAtTolerance(persisted, actual) == Abs(persisted - actual) >= Tolerance

\* the self-heal check
NeedsHeal(persisted, actual) == Abs(persisted - actual) > Tolerance

\* currentStatsObj
CurrentStatsObj(statsRes, actualCompletedHours, currentUserGoal) ==
    IF statsRes.st = "ok"
    THEN [present |-> TRUE,
          weekId |-> statsRes.data.weekId,
          goalHours |-> statsRes.data.goalHours,
          completedHours |-> IF NeedsHeal(statsRes.data.completedHours, actualCompletedHours)
                             THEN actualCompletedHours
                             ELSE statsRes.data.completedHours,
          screenTimeHours |-> statsRes.data.screenTimeHours,
          rating |-> statsRes.data.rating]
    ELSE [present |-> TRUE,
          weekId |-> getCurrentWeekId,
          goalHours |-> currentUserGoal,
          completedHours |-> actualCompletedHours,
          screenTimeHours |-> 0,
          rating |-> 0]

\* the write-back a refresh issues, if any: the self-heal update or the insert
\* of the new week's row
WriteBack(p, statsRes, actualCompletedHours, obj) ==
    IF statsRes.st = "ok"
    THEN IF NeedsHeal(statsRes.data.completedHours, actualCompletedHours)
         THEN {[p EXCEPT !.kind = "sync", !.pc = "sent", !.hours = actualCompletedHours]}
         ELSE {}
    ELSE {[p EXCEPT !.kind = "insertWeek", !.pc = "sent", !.hours = obj.completedHours,
                    !.goalHours = obj.goalHours]}

\* fetchUserData after the await of Promise.all, to the end of finally
FetchJoin(p, profileOk, historyOk) ==
    /\ p \in procs /\ p.kind = "fetch" /\ p.tasksRes # Pending /\ p.statsRes # Pending
    /\ LET currentUserGoal == CurrentUserGoal(p.u, profileOk, dbGoal)
           setGoal == profileOk /\ p.u.present /\ p.u.weeklyGoalHours # currentUserGoal
           user1 == IF setGoal THEN [p.u EXCEPT !.weeklyGoalHours = currentUserGoal] ELSE user
           ls1 == IF setGoal THEN user1 ELSE lsUser
           formattedTasks == IF p.tasksRes.st = "ok" THEN p.tasksRes.data ELSE <<>>
           formattedHistory == IF historyOk THEN dbHistory ELSE <<>>
           actualCompletedHours ==
               ActualCompletedHours(formattedTasks, SessionWindow)
           obj == CurrentStatsObj(p.statsRes, actualCompletedHours, currentUserGoal)
           streak == ComputeStreak(SessionZone, getCurrentWeekId, obj, formattedHistory)
           setStreak == p.u.present /\ p.u.currentStreak # streak /\ user1.present
           user2 == IF setStreak THEN [user1 EXCEPT !.currentStreak = streak] ELSE user1
       IN /\ user' = user2
          /\ lsUser' = IF setStreak THEN user2 ELSE ls1
          /\ tasks' = IF p.tasksRes.st = "ok" THEN formattedTasks ELSE tasks
          /\ stats' = obj
          /\ procs' = (procs \ {p}) \cup WriteBack(p, p.statsRes, actualCompletedHours, obj)
    /\ isLoading' = FALSE
    /\ UNCHANGED <<dbTasks, dbStats, dbHistory, dbGoal, nCreated, nSubmits, nScreen,
                   nReloads, nDeletes, nFail, fnIn, fnOut>>

\* an update whose filter matches no row
ApplySyncNoRow(rows, hours) == rows

\* update({ completed_hours }).eq('week_id', ...).eq('user_id', ...)
ApplySync(rows, hours) == [i \in 1..Len(rows) |-> [rows[i] EXCEPT !.completedHours = hours]]

\* insert({ user_id, week_id, start_date, end_date, goal_hours, completed_hours })
ApplyInsertWeek(rows, goalHours, hours) ==
    Append(rows, [weekId |-> getCurrentWeekId, goalHours |-> goalHours,
                  completedHours |-> hours, screenTimeHours |-> 0, rating |-> 0])

\* a callback that drops the stat in memory when its write-back has failed
ServeWriteBackSurfaced(p, ok) ==
    /\ p \in procs /\ p.kind \in {"sync", "insertWeek"}
    /\ ok /\ p.kind = "insertWeek" => Len(dbStats) < MaxRows
    /\ dbStats' = IF ~ok THEN dbStats
                  ELSE IF p.kind = "sync" THEN ApplySync(dbStats, p.hours)
                  ELSE ApplyInsertWeek(dbStats, p.goalHours, p.hours)
    /\ procs' = procs \ {p}
    /\ Fail(ok)
    /\ stats' = IF ok THEN stats ELSE NoStats
    /\ UNCHANGED <<dbTasks, dbHistory, dbGoal, user, lsUser, tasks, isLoading,
                   nCreated, nSubmits, nScreen, nReloads, nDeletes, fnIn, fnOut>>

\* a write-back of a refresh is answered; its callback only logs an error
ServeWriteBack(p, ok) ==
    /\ p \in procs /\ p.kind \in {"sync", "insertWeek"}
    /\ ok /\ p.kind = "insertWeek" => Len(dbStats) < MaxRows
    /\ dbStats' = IF ~ok THEN dbStats
                  ELSE IF p.kind = "sync" THEN ApplySync(dbStats, p.hours)
                  ELSE ApplyInsertWeek(dbStats, p.goalHours, p.hours)
    /\ procs' = procs \ {p}
    /\ Fail(ok)
    /\ UNCHANGED <<dbTasks, dbHistory, dbGoal, user, lsUser, stats, tasks, isLoading,
                   nCreated, nSubmits, nScreen, nReloads, nDeletes, fnIn, fnOut>>

\* ------------------------------------------------------------------------
\* TaskList: create, submit proof, delete
\* ------------------------------------------------------------------------

\* crypto.randomUUID() of the n-th task created, and the id the table gives it
TempId(n) == 100 + n
DbId(tempId) == tempId - 90

NewTask(id, durationHours) ==
    [id |-> id, durationHours |-> durationHours, status |-> "PENDING", completedAt |-> 0,
     proofImage |-> FALSE, rejectionReason |-> ""]

\* the durations a task is created with (hours, in tenths)
Durations == {5}

\* handleSaveTask, create branch, up to the await of the insert
CreateTask(durationHours) ==
    /\ UIVisible /\ OpsLeft /\ nCreated < MaxCreates
    /\ tasks' = <<NewTask(TempId(nCreated + 1), durationHours)>> \o tasks
    /\ procs' = procs \cup {[NoProc EXCEPT !.pid = 50 + nCreated, !.kind = "create", !.pc = "sent",
                                          !.u = user, !.id = TempId(nCreated + 1),
                                          !.hours = durationHours]}
    /\ nCreated' = nCreated + 1
    /\ UNCHANGED <<dbTasks, dbStats, dbHistory, dbGoal, user, lsUser, stats, isLoading,
                   nSubmits, nScreen, nReloads, nDeletes, nFail, fnIn, fnOut>>

\* the insert into tasks is answered
ServeTaskInsert(p, ok) ==
    /\ p \in procs /\ p.kind = "create" /\ p.pc = "sent"
    /\ dbTasks' = IF ok THEN <<NewTask(DbId(p.id), p.hours)>> \o dbTasks ELSE dbTasks
    /\ procs' = (procs \ {p}) \cup
                (IF p.orphan THEN {} ELSE {[p EXCEPT !.pc = IF ok THEN "data" ELSE "error"]})
    /\ Fail(ok)
    /\ UNCHANGED <<dbStats, dbHistory, dbGoal, user, lsUser, stats, tasks, isLoading,
                   nCreated, nSubmits, nScreen, nReloads, nDeletes, fnIn, fnOut>>

\* prev.filter(t => t.id !== id)
RemoveTask(ts, id) == SelectSeq(ts, LAMBDA t : t.id # id)

\* handleSaveTask after the await: the real id replaces the temporary one, or
\* the optimistic task is removed
ResumeCreate(p) ==
    /\ p \in procs /\ p.kind = "create" /\ p.pc \in {"data", "error"}
    /\ tasks' = IF p.pc = "data"
                THEN MapTask(tasks, p.id, [i \in 1..Len(tasks) |-> [tasks[i] EXCEPT !.id = DbId(p.id)]])
                ELSE RemoveTask(tasks, p.id)
    /\ procs' = procs \ {p}
    /\ UNCHANGED <<dbTasks, dbStats, dbHistory, dbGoal, user, lsUser, stats, isLoading,
                   nCreated, nSubmits, nScreen, nReloads, nDeletes, nFail, fnIn, fnOut>>

\* the Submit Proof button of a task is offered.  verifyingId, which hides it
\* while the task is being verified, is state of the TaskList component: it is
\* reset when the view is left and entered again and overwritten by the next
\* submission, so the button can be reached whenever the task is not VERIFIED.
CanSubmit(t) == t.status # "VERIFIED"

\* handleFileUpload up to reader.readAsDataURL: updateTaskStatus(id, VERIFYING)
SubmitProof(i) ==
    /\ UIVisible /\ OpsLeft /\ nSubmits < MaxSubmits
    /\ i \in 1..Len(tasks) /\ CanSubmit(tasks[i])
    /\ tasks' = MapTask(tasks, tasks[i].id,
                        [j \in 1..Len(tasks) |-> [tasks[j] EXCEPT !.status = "VERIFYING"]])
    /\ procs' = procs \cup {[NoProc EXCEPT !.pid = 10 + nSubmits, !.kind = "verify",
                                          !.pc = "verifying", !.u = user, !.s = stats,
                                          !.id = tasks[i].id,
                                          !.hours = tasks[i].durationHours]}
    /\ nSubmits' = nSubmits + 1
    /\ UNCHANGED <<dbTasks, dbStats, dbHistory, dbGoal, user, lsUser, stats, isLoading,
                   nCreated, nScreen, nReloads, nDeletes, nFail, fnIn, fnOut>>

\* what verifyTaskProof and uploadToR2 can answer: the proof is rejected, the
\* verification service fails, the proof is accepted and stored, the proof is
\* accepted and storing it fails
Outcomes == {"rejected", "serviceFailed", "stored", "storeFailed"}

\* updateCompletedHours up to the await of the update: the new stats
CompletedStats(cur, closure, hoursToAdd, newRating) ==
    IF ~cur.present THEN cur
    ELSE [cur EXCEPT !.completedHours = closure.completedHours + hoursToAdd,
                     !.rating = newRating]

\* the task as the accepted, stored proof leaves it
VerifiedTask(t) == [t EXCEPT !.status = "VERIFIED", !.completedAt = NowT, !.proofImage = TRUE]

\* the task as a rejection leaves it
RejectedTask(t, reason) == [t EXCEPT !.status = "REJECTED", !.rejectionReason = reason]

\* reader.onloadend of handleFileUpload, from the answer of verifyTaskProof to
\* the await of the update of table tasks; with an accepted and stored proof it
\* calls updateCompletedHours, which runs to the await of its own update
VerifyDone(p, outcome) ==
    /\ p \in procs /\ p.kind = "verify" /\ p.pc = "verifying"
    /\ \E newRating \in calculateWeeklyRating(p.s.completedHours + p.hours, p.s.goalHours,
                                              p.s.screenTimeHours) :
       LET verified == outcome \in {"stored", "storeFailed"}
           reason == IF outcome = "rejected" THEN "ai"
                     ELSE IF outcome = "serviceFailed" THEN "service" ELSE ""
           sent == [p EXCEPT !.pc = "sent",
                             !.status = IF verified THEN "VERIFIED" ELSE "REJECTED",
                             !.completedAt = IF verified THEN NowT ELSE 0,
                             !.proofImage = (outcome = "stored"),
                             !.rejectionReason = reason]
           uch == [NoProc EXCEPT !.pid = p.pid, !.kind = "uch", !.pc = "sent", !.u = p.u,
                                 !.s = p.s, !.hours = p.s.completedHours + p.hours,
                                 !.rating = newRating]
           calls == outcome = "stored" /\ p.u.present /\ p.s.present
       IN /\ tasks' = CASE outcome = "stored" -> MapTask(tasks, p.id, [i \in 1..Len(tasks) |-> VerifiedTask(tasks[i])])
                        [] outcome = "storeFailed" -> tasks
                        [] OTHER -> MapTask(tasks, p.id,
                                            [i \in 1..Len(tasks) |-> RejectedTask(tasks[i], reason)])
          /\ stats' = IF calls THEN CompletedStats(stats, p.s, p.hours, newRating) ELSE stats
          /\ procs' = (procs \ {p}) \cup {sent} \cup (IF calls THEN {uch} ELSE {})
    /\ UNCHANGED <<dbTasks, dbStats, dbHistory, dbGoal, user, lsUser, isLoading,
                   nCreated, nSubmits, nScreen, nReloads, nDeletes, nFail, fnIn, fnOut>>

\* update({ status, completed_at, proof_image, rejection_reason }).eq('id', ...)
ApplyTaskUpdate(rows, p) ==
    MapTask(rows, p.id, [i \in 1..Len(rows) |-> [rows[i] EXCEPT !.status = p.status,
                                                                !.completedAt = p.completedAt,
                                                                !.proofImage = p.proofImage,
                                                                !.rejectionReason = p.rejectionReason]])

\* the update of table tasks that ends handleFileUpload is answered
ServeTaskUpdate(p, ok) ==
    /\ p \in procs /\ p.kind = "verify" /\ p.pc = "sent"
    /\ dbTasks' = IF ok THEN ApplyTaskUpdate(dbTasks, p) ELSE dbTasks
    /\ procs' = procs \ {p}
    /\ Fail(ok)
    /\ UNCHANGED <<dbStats, dbHistory, dbGoal, user, lsUser, stats, tasks, isLoading,
                   nCreated, nSubmits, nScreen, nReloads, nDeletes, fnIn, fnOut>>

\* ------------------------------------------------------------------------
\* updateCompletedHours, handleDeleteTask, handleScreenTimeSubmit, reload
\* ------------------------------------------------------------------------

\* update({ completed_hours, rating }).eq('user_id', ...).eq('week_id', ...)
ApplyCompleted(rows, p) ==
    [i \in 1..Len(rows) |-> [rows[i] EXCEPT !.completedHours = p.hours, !.rating = p.rating]]

\* the update of updateCompletedHours is answered
ServeStatsUpdate(p, ok) ==
    /\ p \in procs /\ p.kind = "uch" /\ p.pc = "sent"
    /\ dbStats' = IF ok THEN ApplyCompleted(dbStats, p) ELSE dbStats
    /\ procs' = (procs \ {p}) \cup (IF p.orphan THEN {} ELSE {[p EXCEPT !.pc = "answered"]})
    /\ Fail(ok)
    /\ UNCHANGED <<dbTasks, dbHistory, dbGoal, user, lsUser, stats, tasks, isLoading,
                   nCreated, nSubmits, nScreen, nReloads, nDeletes, fnIn, fnOut>>

\* updateCompletedHours after the await: fetchUserData(user.googleId)
ResumeUpdateCompleted(p) ==
    /\ p \in procs /\ p.kind = "uch" /\ p.pc = "answered"
    /\ procs' = (procs \ {p}) \cup {FetchCall(p.pid, p.u)}
    /\ isLoading' = TRUE
    /\ UNCHANGED <<dbTasks, dbStats, dbHistory, dbGoal, user, lsUser, stats, tasks,
                   nCreated, nSubmits, nScreen, nReloads, nDeletes, nFail, fnIn, fnOut>>

\* handleDeleteTask up to the await of the delete (offered for VERIFIED tasks)
DeleteTask(i) ==
    /\ UIVisible /\ OpsLeft
    /\ i \in 1..Len(tasks) /\ tasks[i].status = "VERIFIED"
    /\ tasks' = RemoveTask(tasks, tasks[i].id)
    /\ procs' = procs \cup {[NoProc EXCEPT !.pid = 30 + tasks[i].id, !.kind = "delete", !.pc = "sent",
                                          !.id = tasks[i].id]}
    /\ nDeletes' = nDeletes + 1
    /\ UNCHANGED <<dbTasks, dbStats, dbHistory, dbGoal, user, lsUser, stats, isLoading,
                   nCreated, nSubmits, nScreen, nReloads, nFail, fnIn, fnOut>>

\* the delete is answered; handleDeleteTask ends with an alert on an error
ServeTaskDelete(p, ok) ==
    /\ p \in procs /\ p.kind = "delete"
    /\ dbTasks' = IF ok THEN RemoveTask(dbTasks, p.id) ELSE dbTasks
    /\ procs' = procs \ {p}
    /\ Fail(ok)
    /\ UNCHANGED <<dbStats, dbHistory, dbGoal, user, lsUser, stats, tasks, isLoading,
                   nCreated, nSubmits, nScreen, nReloads, nDeletes, fnIn, fnOut>>

\* the hours a screen-time submission reports (tenths of an hour)
ScreenHours == {150}

\* ScreenTimeUpload.handleSubmit up to the await of uploadToR2
SubmitScreenTime(hours) ==
    /\ UIVisible /\ OpsLeft /\ nScreen < MaxScreen
    /\ hours >= 0
    /\ procs' = procs \cup {[NoProc EXCEPT !.pid = 40 + nScreen, !.kind = "screen",
                                          !.pc = "uploading", !.u = user, !.s = stats,
                                          !.hours = hours]}
    /\ nScreen' = nScreen + 1
    /\ UNCHANGED <<dbTasks, dbStats, dbHistory, dbGoal, user, lsUser, stats, tasks, isLoading,
                   nCreated, nSubmits, nReloads, nDeletes, nFail, fnIn, fnOut>>

\* handleScreenTimeSubmit up to the await of the update: the new stats
ScreenStats(cur, closure, hours, newRating) ==
    IF ~cur.present THEN cur
    ELSE [cur EXCEPT !.screenTimeHours = closure.screenTimeHours + hours,
                     !.rating = newRating]

\* uploadToR2 ends; on success onSubmit (handleScreenTimeSubmit) runs to its await
ScreenTimeUploaded(p, ok) ==
    /\ p \in procs /\ p.kind = "screen" /\ p.pc = "uploading"
    /\ \E newRating \in calculateWeeklyRating(p.s.completedHours, p.s.goalHours,
                                              p.s.screenTimeHours + p.hours) :
       LET calls == ok /\ p.u.present /\ p.s.present
           sent == [p EXCEPT !.pc = "sent", !.hours = p.s.screenTimeHours + p.hours,
                             !.rating = newRating]
       IN /\ stats' = IF calls THEN ScreenStats(stats, p.s, p.hours, newRating) ELSE stats
          /\ procs' = (procs \ {p}) \cup (IF calls THEN {sent} ELSE {})
    /\ Fail(ok)
    /\ UNCHANGED <<dbTasks, dbStats, dbHistory, dbGoal, user, lsUser, tasks, isLoading,
                   nCreated, nSubmits, nScreen, nReloads, nDeletes, fnIn, fnOut>>

\* update({ screen_time_hours, rating }).eq('user_id', ...).eq('week_id', ...)
ApplyScreen(rows, p) ==
    [i \in 1..Len(rows) |-> [rows[i] EXCEPT !.screenTimeHours = p.hours, !.rating = p.rating]]

\* the update of handleScreenTimeSubmit is answered
ServeScreenUpdate(p, ok) ==
    /\ p \in procs /\ p.kind = "screen" /\ p.pc = "sent"
    /\ dbStats' = IF ok THEN ApplyScreen(dbStats, p) ELSE dbStats
    /\ procs' = procs \ {p}
    /\ Fail(ok)
    /\ UNCHANGED <<dbTasks, dbHistory, dbGoal, user, lsUser, stats, tasks, isLoading,
                   nCreated, nSubmits, nScreen, nReloads, nDeletes, fnIn, fnOut>>

\* a call whose request the tables have not answered yet
RequestInFlight(p) == p.kind \in {"sync", "insertWeek", "delete"} \/ p.pc = "sent"

\* The page is loaded again: App starts from its initial state, the effect
\* restores the user from localStorage and calls the fetchUserData of the
\* first render, whose closure holds user = null.  The handlers of the page
\* left behind never resume; the writes they had sent are still answered.
Reload ==
    /\ OpsLeft /\ nReloads < MaxReloads
    /\ lsUser.present
    /\ user' = lsUser
    /\ stats' = NoStats
    /\ tasks' = <<>>
    /\ isLoading' = TRUE
    /\ procs' = {[p EXCEPT !.orphan = (p.kind \in {"create", "uch", "goal"})] :
                      p \in {q \in procs : RequestInFlight(q)}}
                \cup {FetchCall(21 + nReloads, NoUser)}
    /\ nReloads' = nReloads + 1
    /\ UNCHANGED <<dbTasks, dbStats, dbHistory, dbGoal, lsUser, nCreated, nSubmits, nScreen,
                   nDeletes, nFail, fnIn, fnOut>>

\* ------------------------------------------------------------------------
\* The session's specification
\* ------------------------------------------------------------------------

\* the user's goal in table profiles and in localStorage: 1 hour
ProfileGoal == 10

\* the tasks table when the session starts: a task verified on Tuesday of this
\* week, a pending task, a task verified in the week before
InitialTasks ==
    <<[id |-> 3, durationHours |-> 5, status |-> "VERIFIED", completedAt |-> NowT - 24,
       proofImage |-> TRUE, rejectionReason |-> ""],
      NewTask(2, 10),
      [id |-> 1, durationHours |-> 10, status |-> "VERIFIED", completedAt |-> LastWeekT,
       proofImage |-> TRUE, rejectionReason |-> ""]>>

\* the row of the current week as the program leaves it for these tasks
InitialRow ==
    [weekId |-> getCurrentWeekId, goalHours |-> ProfileGoal, completedHours |-> 5,
     screenTimeHours |-> 0, rating |-> CHOOSE r \in calculateWeeklyRating(5, ProfileGoal, 0) : TRUE]

HistoryRow(y, w, completedHours, goalHours) ==
    [weekId |-> FormatWeekId(y, w), goalHours |-> goalHours, completedHours |-> completedHours,
     screenTimeHours |-> 0, rating |-> CHOOSE r \in calculateWeeklyRating(completedHours, goalHours, 0) : TRUE]

\* the rows of the weeks before: W08 50/40, W09 30/40, W10 40/40
InitialHistory ==
    <<HistoryRow(2024, 8, 500, 400), HistoryRow(2024, 9, 300, 400), HistoryRow(2024, 10, 400, 400)>>

NoOut == [done |-> FALSE, value |-> 0, met |-> 0, unmet |-> 0, startMet |-> <<>>,
          startUnmet |-> <<>>, id |-> <<>>, other |-> <<>>, window |-> <<>>,
          desc |-> <<>>, asc |-> <<>>, again |-> FALSE, second |-> 0]

\* A session resumed from localStorage, in a week that has its row or has none
\* yet: the effect of the first render has called fetchUserData.
Init ==
    /\ dbTasks = InitialTasks
    /\ dbStats \in {<<>>, <<InitialRow>>}
    /\ dbHistory = InitialHistory
    /\ dbGoal = ProfileGoal
    /\ lsUser = [present |-> TRUE, weeklyGoalHours |-> ProfileGoal, currentStreak |-> 0]
    /\ user = lsUser
    /\ stats = NoStats
    /\ tasks = <<>>
    /\ isLoading = TRUE
    /\ procs = {FetchCall(20, NoUser)}
    /\ nCreated = 0 /\ nSubmits = 0 /\ nScreen = 0 /\ nReloads = 0 /\ nDeletes = 0
    /\ nFail = 0
    /\ fnIn = <<>> /\ fnOut = NoOut

Next ==
    \/ \E p \in procs, ok \in BOOLEAN : ServeTasksRead(p, ok)
    \/ \E p \in procs, ok \in BOOLEAN : ServeStatsRead(p, ok)
    \/ \E p \in procs, profileOk \in BOOLEAN, historyOk \in BOOLEAN :
           FetchJoin(p, profileOk, historyOk)
    \/ \E p \in procs, ok \in BOOLEAN : ServeWriteBack(p, ok)
    \/ \E d \in Durations : CreateTask(d)
    \/ \E p \in procs, ok \in BOOLEAN : ServeTaskInsert(p, ok)
    \/ \E p \in procs : ResumeCreate(p)
    \/ \E i \in 1..Len(tasks) : SubmitProof(i)
    \/ \E p \in procs, outcome \in Outcomes : VerifyDone(p, outcome)
    \/ \E p \in procs, ok \in BOOLEAN : ServeTaskUpdate(p, ok)
    \/ \E p \in procs, ok \in BOOLEAN : ServeStatsUpdate(p, ok)
    \/ \E p \in procs : ResumeUpdateCompleted(p)
    \/ \E i \in 1..Len(tasks) : DeleteTask(i)
    \/ \E p \in procs, ok \in BOOLEAN : ServeTaskDelete(p, ok)
    \/ \E h \in ScreenHours : SubmitScreenTime(h)
    \/ \E p \in procs, ok \in BOOLEAN : ScreenTimeUploaded(p, ok)
    \/ \E p \in procs, ok \in BOOLEAN : ServeScreenUpdate(p, ok)
    \/ Reload

Spec == Init /\ [][Next]_vars

\* ------------------------------------------------------------------------
\* The streak of fetchUserData as a function of the week's stats and history
\* ------------------------------------------------------------------------

\* the session's state while a function is applied on its own
Idle ==
    /\ dbTasks = <<>> /\ dbStats = <<>> /\ dbHistory = <<>> /\ dbGoal = 0
    /\ user = NoUser /\ lsUser = NoUser /\ stats = NoStats /\ tasks = <<>>
    /\ isLoading = FALSE /\ procs = {}
    /\ nCreated = 0 /\ nSubmits = 0 /\ nScreen = 0 /\ nReloads = 0 /\ nDeletes = 0
    /\ nFail = 0

\* weeks of history before the current one
MaxHistWeeks == 3

\* how a week ended: no row stored, or a row above, at or below its goal
WeekEnds == {"absent", "above", "equal", "below"}

EndHours(e) == IF e = "above" THEN 500 ELSE IF e = "equal" THEN 400 ELSE 300

\* the days the streak is computed on: the spec's week 11, the first week of a
\* year after a 52-week and after a 53-week year, the last week of a 53-week
\* year, and two weeks of a year that starts on a Friday
StreakDays ==
    {DayOf(2024, 3, 13), DayOf(2025, 1, 1), DayOf(2021, 1, 6), DayOf(2021, 1, 1),
     DayOf(2027, 5, 20), DayOf(2027, 10, 13)}

StreakInputs ==
    [tz : Zones, today : StreakDays, cur : {"above", "equal", "below"},
     weeks : [1..MaxHistWeeks -> WeekEnds]]

\* the row the program stored in the week j weeks before today, under the
\* identifier getCurrentWeekId gave it then
StoredRow(in, j) ==
    [weekId |-> getWeekIdFromDate(in.tz, in.today - 7 * j), goalHours |-> 400,
     completedHours |-> EndHours(in.weeks[j]), screenTimeHours |-> 0, rating |-> 0]

RECURSIVE StoredRows(_, _)
\* the rows of weeks j.. before today, newest first; one row per identifier
StoredRows(in, j) ==
    IF j > Len(in.weeks) THEN <<>>
    ELSE LET older == StoredRows(in, j + 1)
             row == StoredRow(in, j)
         IN IF in.weeks[j] = "absent" THEN older
            ELSE <<row>> \o SelectSeq(older, LAMBDA r : r.weekId # row.weekId)

Reverse(q) == [i \in 1..Len(q) |-> q[Len(q) + 1 - i]]

\* select('*').neq('week_id', currentWeekId).order('week_id', { ascending: true })
HistoryRead(rows, currentWeekId) ==
    Reverse(SortDesc(SelectSeq(rows, LAMBDA r : r.weekId # currentWeekId)))

StatsOf(in, cur) ==
    [present |-> TRUE, weekId |-> getWeekIdFromDate(in.tz, in.today), goalHours |-> 400,
     completedHours |-> EndHours(cur), screenTimeHours |-> 0, rating |-> 0]

StreakOf(in, cur) ==
    ComputeStreak(in.tz, getWeekIdFromDate(in.tz, in.today), StatsOf(in, cur),
                  HistoryRead(StoredRows(in, 1), getWeekIdFromDate(in.tz, in.today)))

InitStreak == Idle /\ fnIn \in StreakInputs /\ fnOut = NoOut

\* the streak calculation of fetchUserData is run on the input, and on the
\* same history with the current week at and below its goal
ApplyStreak ==
    /\ ~fnOut.done
    /\ fnOut' = [NoOut EXCEPT
                 !.done = TRUE, !.value = StreakOf(fnIn, fnIn.cur),
                 !.met = StreakOf(fnIn, "equal"), !.unmet = StreakOf(fnIn, "below"),
                 !.startMet = WalkStart(fnIn.tz, getWeekIdFromDate(fnIn.tz, fnIn.today),
                                        StatsOf(fnIn, "equal")),
                 !.startUnmet = WalkStart(fnIn.tz, getWeekIdFromDate(fnIn.tz, fnIn.today),
                                          StatsOf(fnIn, "below"))]
    /\ UNCHANGED <<sysVars, fnIn>>

NextStreak == ApplyStreak

SpecStreak == InitStreak /\ [][NextStreak]_vars

\* 1 when the current week has met its goal
CurrentBit(in) == IF in.cur \in {"above", "equal"} THEN 1 ELSE 0

RECURSIVE MetRun(_, _)
\* the number of weeks immediately before the current one, from week j on,
\* that each have a row at or above its goal
MetRun(in, j) ==
    IF j > Len(in.weeks) THEN 0
    ELSE IF in.weeks[j] \in {"above", "equal"} THEN 1 + MetRun(in, j + 1)
    ELSE 0

RECURSIVE PresentRun(_, _)
\* the number of weeks immediately before the current one that have a row
PresentRun(in, j) ==
    IF j > Len(in.weeks) THEN 0
    ELSE IF in.weeks[j] # "absent" THEN 1 + PresentRun(in, j + 1)
    ELSE 0

\* ------------------------------------------------------------------------
\* Refreshes alone: sessions that only load and reload, over tables whose
\* weekly_stats row may have drifted from the tasks
\* ------------------------------------------------------------------------

\* completed_hours of the persisted row when the session starts; the tasks
\* of this week add up to 5
PersistedHours == {0, 4, 5, 6, 15}

InitRefresh ==
    /\ dbTasks = InitialTasks
    /\ dbStats \in {<<>>} \cup {<<[InitialRow EXCEPT !.completedHours = c]>> : c \in PersistedHours}
    /\ dbHistory = InitialHistory
    /\ dbGoal = ProfileGoal
    /\ lsUser = [present |-> TRUE, weeklyGoalHours |-> ProfileGoal, currentStreak |-> 0]
    /\ user = lsUser
    /\ stats = NoStats
    /\ tasks = <<>>
    /\ isLoading = TRUE
    /\ procs = {FetchCall(20, NoUser)}
    /\ nCreated = 0 /\ nSubmits = 0 /\ nScreen = 0 /\ nReloads = 0 /\ nDeletes = 0
    /\ nFail = 0
    /\ fnIn = <<>> /\ fnOut = NoOut

NextRefresh ==
    \/ \E p \in procs, ok \in BOOLEAN : ServeTasksRead(p, ok)
    \/ \E p \in procs, ok \in BOOLEAN : ServeStatsRead(p, ok)
    \/ \E p \in procs, profileOk \in BOOLEAN, historyOk \in BOOLEAN :
           FetchJoin(p, profileOk, historyOk)
    \/ \E p \in procs, ok \in BOOLEAN : ServeWriteBack(p, ok)
    \/ Reload

SpecRefresh == InitRefresh /\ [][NextRefresh]_vars

\* ------------------------------------------------------------------------
\* Properties of the streak calculation (SpecStreak)
\* ------------------------------------------------------------------------

\* C2: the streak is 1 if the current week has met its goal (else 0) plus the
\* number of consecutive weeks immediately before the current one that each
\* have a row with completedHours >= goalHours (equal counts as met).
C2_StreakIsMetRun ==
    fnOut.done => fnOut.value = CurrentBit(fnIn) + MetRun(fnIn, 1)

\* C3: a week without a row ends the streak: no row older than the first
\* missing week is counted.
C3_GapEndsStreak ==
    fnOut.done => fnOut.value <= CurrentBit(fnIn) + PresentRun(fnIn, 1)

\* C4: for every history, the streak with the current week below its goal is
\* the streak with the current week at its goal minus 1, and in both cases
\* the walk starts at the week getPreviousWeekId gives for the current week.
C4_InProgressWeekKeepsStreak ==
    fnOut.done =>
        /\ fnOut.unmet = fnOut.met - 1
        /\ fnOut.startUnmet = fnOut.startMet
        /\ fnOut.startMet = getPreviousWeekId(fnIn.tz, getWeekIdFromDate(fnIn.tz, fnIn.today))

\* C4 witness: the current week is below its goal and two earlier weeks in
\* a row are still counted
C4_Witness ==
    /\ fnOut.done
    /\ fnIn.cur = "below"
    /\ fnOut.value = 2
    /\ fnOut.met = 3

\* ------------------------------------------------------------------------
\* Properties of the session (Spec) and of its refreshes (SpecRefresh)
\* ------------------------------------------------------------------------

\* the sum of the durations of the VERIFIED tasks completed in the week
WeekAggregate(ts) == ActualCompletedHours(ts, SessionWindow)

\* the refresh p runs from the answers of its reads to its end in this step
JoinStep(p) ==
    /\ p \in procs /\ p.kind = "fetch" /\ p.tasksRes # Pending /\ p.statsRes # Pending
    /\ p \notin procs'
    /\ nReloads' = nReloads

\* the tasks refresh p works on (none when its read failed)
TasksOf(p) == IF p.tasksRes.st = "ok" THEN p.tasksRes.data ELSE <<>>

\* C1: whenever no call is in flight and no request to the tables has failed,
\* the completedHours of the active week, in memory and in every persisted
\* row, is the sum of the durations of the VERIFIED tasks completed in the
\* week's window.
C1_QuiescentHoursAreAggregate ==
    (procs = {} /\ stats.present /\ nFail = 0) =>
        /\ stats.completedHours = WeekAggregate(dbTasks)
        /\ \A i \in 1..Len(dbStats) : dbStats[i].completedHours = WeekAggregate(dbTasks)

\* C5: a refresh that reads the persisted value p and computes the sum a of
\* the in-window verified tasks ends with a in memory and exactly one
\* write-back of a when |p - a| exceeds the tolerance, and with p in memory
\* and no write-back otherwise.
C5_RefreshReconciles ==
    [][\A p \in procs :
          (JoinStep(p) /\ p.statsRes.st = "ok") =>
              LET a == WeekAggregate(TasksOf(p))
                  persisted == p.statsRes.data.completedHours
                  issued == procs' \ procs
              IN IF Abs(persisted - a) > Tolerance
                 THEN /\ stats'.completedHours = a
                      /\ Cardinality(issued) = 1
                      /\ \A w \in issued : w.kind = "sync" /\ w.hours = a
                 ELSE /\ stats'.completedHours = persisted
                      /\ issued = {}]_vars

\* C5 witness: a refresh has replaced a persisted value that was off by more
\* than the tolerance, and its write-back is in flight
C5_Witness ==
    /\ stats.present
    /\ \E w \in procs :
          /\ w.kind = "sync" /\ w.statsRes.st = "ok"
          /\ Abs(w.statsRes.data.completedHours - w.hours) > Tolerance
          /\ stats.completedHours = w.hours

\* C6: a refresh whose reads succeed on a row that differs from the aggregate
\* of the tasks by more than the tolerance issues a write-back of the
\* aggregate, whatever happened to earlier write-backs, and when that
\* write-back succeeds every row of the week holds the aggregate.
C6_DriftHealsOnRefresh ==
    [][/\ \A p \in procs :
            (/\ JoinStep(p)
             /\ p.tasksRes = Ok(dbTasks) /\ p.statsRes.st = "ok"
             /\ Abs(p.statsRes.data.completedHours - WeekAggregate(dbTasks)) > Tolerance)
            => \E w \in procs' \ procs :
                  /\ w.kind = "sync" /\ w.hours = WeekAggregate(dbTasks)
                  /\ stats'.completedHours = WeekAggregate(dbTasks)
       /\ \A w \in procs :
            (/\ w.kind = "sync" /\ w.tasksRes = Ok(dbTasks)
             /\ w \notin procs' /\ nReloads' = nReloads /\ nFail' = nFail)
            => \A i \in 1..Len(dbStats') :
                  dbStats'[i].completedHours = WeekAggregate(dbTasks')]_vars

\* C6 witness: the write-back of the first refresh has failed, the row still
\* holds the drifted value, and the refresh after the reload has issued the
\* write-back again
C6_Witness ==
    /\ nReloads = 1 /\ nFail = 1
    /\ Len(dbStats) = 1
    /\ Abs(dbStats[1].completedHours - WeekAggregate(dbTasks)) > Tolerance
    /\ \E w \in procs :
          /\ procs = {w}
          /\ w.kind = "sync" /\ w.pid = 21 /\ w.hours = WeekAggregate(dbTasks)

C8_CompletedAtIffVerified ==
    /\ \A i \in 1..Len(tasks) : (tasks[i].completedAt # 0) <=> (tasks[i].status = "VERIFIED")
    /\ \A i \in 1..Len(dbTasks) : (dbTasks[i].completedAt # 0) <=> (dbTasks[i].status = "VERIFIED")

\* the status changes of a task: PENDING or REJECTED to VERIFYING on a proof
\* submission, VERIFYING to VERIFIED or REJECTED
StatusMoves ==
    {<<"PENDING", "VERIFYING">>, <<"REJECTED", "VERIFYING">>,
     <<"VERIFYING", "VERIFIED">>, <<"VERIFYING", "REJECTED">>}

\* C9: the status of a task in memory changes only along its lifecycle: it
\* becomes VERIFIED or REJECTED only from VERIFYING, never returns from
\* VERIFYING to PENDING, and never changes once VERIFIED.
C9_StatusLifecycle ==
    [][\A i \in 1..Len(tasks), j \in 1..Len(tasks') :
          tasks[i].id = tasks'[j].id =>
              \/ tasks'[j].status = tasks[i].status
              \/ <<tasks[i].status, tasks'[j].status>> \in StatusMoves]_vars

\* a step of one of the operations that change the hours of the active week:
\* an accepted and stored proof, a screen-time submission, a refresh that
\* heals the row or creates the new week
ChangesHours ==
    \/ \E p \in procs : p.kind = "verify" /\ p.pc = "verifying" /\ p \notin procs'
                        /\ stats' # stats
    \/ \E p \in procs : p.kind = "screen" /\ p.pc = "uploading" /\ p \notin procs'
                        /\ stats' # stats
    \/ \E p \in procs :
          /\ JoinStep(p)
          /\ \/ p.statsRes.st # "ok"
             \/ Abs(p.statsRes.data.completedHours - WeekAggregate(TasksOf(p))) > Tolerance

\* C10: after every operation that changes the completed or screen-time
\* hours of the active week, its rating in memory is the scoring function of
\* its new completed, goal and screen-time hours.
C10_RatingFollowsHours ==
    [][(ChangesHours /\ stats'.present) =>
          stats'.rating \in calculateWeeklyRating(stats'.completedHours, stats'.goalHours,
                                                stats'.screenTimeHours)]_vars

\* ------------------------------------------------------------------------
\* calculateWeeklyRating as a function of its arguments
\* ------------------------------------------------------------------------

\* completed hours 0 .. 1.2 and goals 0 .. 1.0 (tenths of an hour)
MaxRatingHours == 12
MaxRatingGoal == 10

\* goals include a negative one; screen times below, at and above the
\* threshold of 14 hours
RatingInputs ==
    [completedHours : 0..MaxRatingHours,
     goalHours : {-10} \cup 0..MaxRatingGoal,
     screenTimeHours : {0, 140, 141, 150, 163, 340}]

InitRating == Idle /\ fnIn \in RatingInputs /\ fnOut = NoOut

ApplyRating ==
    /\ ~fnOut.done
    /\ \E r \in calculateWeeklyRating(fnIn.completedHours, fnIn.goalHours, fnIn.screenTimeHours) :
          fnOut' = [NoOut EXCEPT !.done = TRUE, !.value = r]
    /\ UNCHANGED <<sysVars, fnIn>>

NextRating == ApplyRating

SpecRating == InitRating /\ [][NextRating]_vars

\* twice the goal times the score completed / goal * 10 minus 0.5 per hour of
\* screen time above 14, in tenths of a point, clamped to [0, 10] (goal > 0)
ClampedScore(in) ==
    LET over == IF in.screenTimeHours > 140 THEN in.screenTimeHours - 140 ELSE 0
        score == 200 * in.completedHours - in.goalHours * over
    IN IF score < 0 THEN 0
       ELSE IF score > 200 * in.goalHours THEN 200 * in.goalHours
       ELSE score

\* C11: the rating is between 0 and 10; it is 0 when the goal is 0 (and when
\* the goal is negative, where the clamped score is 0); otherwise it is a
\* tenth nearest to completed / goal * 10 minus 0.5 per hour of screen time
\* above 14, clamped to [0, 10].
C11_RatingIsClampedRoundedScore ==
    fnOut.done =>
        /\ fnOut.value >= 0 /\ fnOut.value <= 100
        /\ fnIn.goalHours <= 0 => fnOut.value = 0
        /\ fnIn.goalHours > 0 =>
              /\ 2 * fnIn.goalHours * fnOut.value - ClampedScore(fnIn) <= fnIn.goalHours
              /\ ClampedScore(fnIn) - 2 * fnIn.goalHours * fnOut.value <= fnIn.goalHours

\* C11 witness: a rating strictly between 0 and 10 that carries a screen-time
\* penalty
C11_Witness ==
    /\ fnOut.done
    /\ fnIn.screenTimeHours > 140 /\ fnIn.goalHours > 0
    /\ fnOut.value > 0 /\ fnOut.value < 100
    /\ fnOut.value < (100 * fnIn.completedHours) \div fnIn.goalHours

\* ------------------------------------------------------------------------
\* Week identifiers as functions of the date and of the identifier
\* ------------------------------------------------------------------------

\* the dates: every day from 2018-01-08 to the last week of LastYear
WeekDays == 7..(YearStartDay(LastYear + 1) - 8)

WeekInputs == [tz : Zones, day : WeekDays]

\* the Thursday of the Monday-to-Sunday week of a day (day 0 is a Monday)
ThursdayOf(day) == day - (day % 7) + 3

\* ISO 8601: the week-numbering year is the calendar year of the week's
\* Thursday, and week 1 is the week of the year's first Thursday
IsoWeekId(day) ==
    LET thursday == ThursdayOf(day)
        y == getFullYear(thursday)
    IN FormatWeekId(y, (thursday - YearStartDay(y)) \div 7 + 1)

InitWeek == Idle /\ fnIn \in WeekInputs /\ fnOut = NoOut

\* getWeekIdFromDate is applied to the date, getPreviousWeekId to the
\* identifier of the date's ISO week
ApplyWeek ==
    /\ ~fnOut.done
    /\ fnOut' = [NoOut EXCEPT !.done = TRUE,
                              !.id = getWeekIdFromDate(fnIn.tz, fnIn.day),
                              !.other = getPreviousWeekId(fnIn.tz, IsoWeekId(fnIn.day))]
    /\ UNCHANGED <<sysVars, fnIn>>

NextWeek == ApplyWeek

SpecWeek == InitWeek /\ [][NextWeek]_vars

\* C12: for every calendar date getWeekIdFromDate returns the identifier
\* YYYY-Www of the date's ISO 8601 week.
C12_WeekIdIsIso == fnOut.done => fnOut.id = IsoWeekId(fnIn.day)

\* C13: for every valid week identifier, getPreviousWeekId returns the
\* identifier of the ISO week that ends the day before that week starts.
C13_PreviousWeekIsIso == fnOut.done => fnOut.other = IsoWeekId(fnIn.day - 7)

\* ------------------------------------------------------------------------
\* Week identifiers and the week window as functions of the instant
\* ------------------------------------------------------------------------

\* the instants: the first and the last hour (in the zone's standard time) of
\* every day from 2018-01-15 to mid-December of LastYear, each paired with a
\* second instant an hour before or after it, or a week less an hour or a
\* whole week after it
WindowDays == 14..(YearStartDay(LastYear + 1) - 15)

WindowHours == {0, 23}

WindowDeltas == {-1, 1, 167, 168}

WindowInputs == [tz : Zones, now : {24 * day + h : day \in WindowDays, h \in WindowHours},
                 delta : WindowDeltas]

InitWindow == Idle /\ fnIn \in WindowInputs /\ fnOut = NoOut

\* getCurrentWeekId() and the window of fetchUserData at the instant now,
\* getWeekIdFromDate at the second instant
ApplyWindow ==
    /\ ~fnOut.done
    /\ fnOut' = [NoOut EXCEPT
                 !.done = TRUE,
                 !.id = getWeekIdFromDate(fnIn.tz, LocalDay(fnIn.tz, fnIn.now)),
                 !.other = getWeekIdFromDate(fnIn.tz, LocalDay(fnIn.tz, fnIn.now + fnIn.delta)),
                 !.window = WeekWindow(fnIn.tz, fnIn.now)]
    /\ UNCHANGED <<sysVars, fnIn>>

NextWindow == ApplyWindow

SpecWindow == InitWindow /\ [][NextWindow]_vars

\* C14: an instant lies in the window [monday, nextMonday) computed for now
\* exactly when getWeekIdFromDate gives it the identifier of now: instants of
\* one window share their identifier, instants of different windows differ.
C14_WindowIsWeekOfId ==
    fnOut.done =>
        ((fnOut.window[1] <= fnIn.now + fnIn.delta /\ fnIn.now + fnIn.delta < fnOut.window[2])
         <=> fnOut.other = fnOut.id)

\* ------------------------------------------------------------------------
\* The orderings of week identifiers (streak walk, History view)
\* ------------------------------------------------------------------------

\* the comparator of sortedHistory is negative: a sorts before b
HistoryBefore(a, b) ==
    LET yearA == SplitYear(a.weekId)
        weekA == SplitWeek(a.weekId)
        yearB == SplitYear(b.weekId)
        weekB == SplitWeek(b.weekId)
    IN IF yearA # yearB THEN yearA - yearB < 0 ELSE weekA - weekB < 0

RECURSIVE InsertAsc(_, _)
\* insert e into a list sorted by the comparator of sortedHistory, after its equals
InsertAsc(e, sorted) ==
    IF sorted = <<>> THEN <<e>>
    ELSE IF HistoryBefore(e, Head(sorted)) THEN <<e>> \o sorted
    ELSE <<Head(sorted)>> \o InsertAsc(e, Tail(sorted))

RECURSIVE sortedHistory(_)
\* [...history].sort(...) of the History view, a stable sort
sortedHistory(h) ==
    IF h = <<>> THEN <<>> ELSE InsertAsc(h[Len(h)], sortedHistory(SubSeq(h, 1, Len(h) - 1)))

\* the week numbers of the rows: both sides of the change from one digit to
\* two, and the ends of the year
OrderWeeks == {1, 2, 9, 10, 11, 52, 53}

OrderInputs == [ya : Years, wa : OrderWeeks, yb : Years, wb : OrderWeeks]

\* the two rows of weekly_stats, with their identifiers as the program writes them
OrderRows(in) == <<[weekId |-> FormatWeekId(in.ya, in.wa)], [weekId |-> FormatWeekId(in.yb, in.wb)]>>

WeekIds(rows) == [i \in 1..Len(rows) |-> rows[i].weekId]

InitOrder == Idle /\ fnIn \in OrderInputs /\ fnOut = NoOut

\* reversedHistory of fetchUserData and sortedHistory of History on the rows
ApplyOrder ==
    /\ ~fnOut.done
    /\ fnOut' = [NoOut EXCEPT !.done = TRUE,
                              !.desc = WeekIds(SortDesc(OrderRows(fnIn))),
                              !.asc = WeekIds(sortedHistory(OrderRows(fnIn)))]
    /\ UNCHANGED <<sysVars, fnIn>>

NextOrder == ApplyOrder

SpecOrder == InitOrder /\ [][NextOrder]_vars

\* week a is before week b in the order of (year, week number) as integers
IntBefore(in) == in.ya < in.yb \/ (in.ya = in.yb /\ in.wa < in.wb)

Statuses == {"PENDING", "VERIFYING", "VERIFIED", "REJECTED"}

\* the durations of the listed tasks (hours, in tenths)
AggregateDurations == {5, 10}

\* the completion instants of the listed tasks: none (0), the last hour
\* before the window, its first and last hour, and nextMonday
AggregateInstants(window) == {0, window[1] - 1, window[1], window[2] - 1, window[2]}

AggregateTask(durationHours, status, completedAt) ==
    [NewTask(1, durationHours) EXCEPT !.status = status, !.completedAt = completedAt]

\* the task lists: up to two tasks
AggregateLists(window) ==
    LET one == {AggregateTask(h, st, at) : h \in AggregateDurations, st \in Statuses,
                                           at \in AggregateInstants(window)}
    IN {<<>>} \cup {<<t>> : t \in one} \cup {<<t, u>> : t \in one, u \in one}

AggregateInputs ==
    UNION {{[tz |-> tz, now |-> NowT, tasks |-> ts] : ts \in AggregateLists(WeekWindow(tz, NowT))}
           : tz \in Zones}

InitAggregate == Idle /\ fnIn \in AggregateInputs /\ fnOut = NoOut

\* step 4 of fetchUserData on the task list: the window and actualCompletedHours
ApplyAggregate ==
    /\ ~fnOut.done
    /\ fnOut' = [NoOut EXCEPT
                 !.done = TRUE,
                 !.window = WeekWindow(fnIn.tz, fnIn.now),
                 !.value = ActualCompletedHours(fnIn.tasks, WeekWindow(fnIn.tz, fnIn.now))]
    /\ UNCHANGED <<sysVars, fnIn>>

\* the next refresh evaluates it again on the same list and window
ReapplyAggregate ==
    /\ fnOut.done /\ ~fnOut.again
    /\ fnOut' = [fnOut EXCEPT
                 !.again = TRUE,
                 !.second = ActualCompletedHours(fnIn.tasks, WeekWindow(fnIn.tz, fnIn.now))]
    /\ UNCHANGED <<sysVars, fnIn>>

NextAggregate == ApplyAggregate \/ ReapplyAggregate

SpecAggregate == InitAggregate /\ [][NextAggregate]_vars

\* what a task adds to the week: its planned duration when it is VERIFIED
\* and has a completion instant t with monday <= t < nextMonday
Contribution(t, window) ==
    IF t.status = "VERIFIED" /\ t.completedAt # 0
       /\ window[1] <= t.completedAt /\ t.completedAt < window[2]
    THEN t.durationHours ELSE 0

RECURSIVE SumContributions(_, _)
SumContributions(ts, window) ==
    IF ts = <<>> THEN 0
    ELSE Contribution(ts[1], window) + SumContributions(Tail(ts), window)

\* C16: the aggregate of a refresh is the sum of the planned durations of
\* exactly the VERIFIED tasks completed in [monday, nextMonday); every other
\* task adds nothing, and a second evaluation on the same list and window
\* gives the same value.
C16_AggregateIsWindowSum ==
    /\ fnOut.done => fnOut.value = SumContributions(fnIn.tasks, fnOut.window)
    /\ fnOut.again => fnOut.second = fnOut.value

\* a list with a task verified in the last hour of the window and a task
\* verified at nextMonday has been aggregated twice
C16_Witness ==
    /\ fnOut.again
    /\ Len(fnIn.tasks) = 2
    /\ fnIn.tasks[1].status = "VERIFIED" /\ fnIn.tasks[1].completedAt = fnOut.window[2] - 1
    /\ fnIn.tasks[2].status = "VERIFIED" /\ fnIn.tasks[2].completedAt = fnOut.window[2]
    /\ fnOut.value = fnIn.tasks[1].durationHours

\* ------------------------------------------------------------------------
\* Failures of the reads and of the write-backs of a refresh
\* ------------------------------------------------------------------------

\* C17: when a refresh joins its reads, the result of every read that
\* succeeded is applied to the state in memory whatever became of the other
\* reads: the task list is the list read, and the weekly stat is the row read,
\* its completed hours being those of the row or, when the task list was read
\* too, the sum over that list.
C17_ReadFailuresAreIsolated ==
    [][\A p \in procs :
          JoinStep(p) =>
              /\ p.tasksRes.st = "ok" => tasks' = p.tasksRes.data
              /\ p.statsRes.st = "ok" =>
                    /\ stats'.present
                    /\ stats'.weekId = p.statsRes.data.weekId
                    /\ stats'.goalHours = p.statsRes.data.goalHours
                    /\ stats'.screenTimeHours = p.statsRes.data.screenTimeHours
                    /\ stats'.rating = p.statsRes.data.rating
                    /\ \/ stats'.completedHours = p.statsRes.data.completedHours
                       \/ /\ p.tasksRes.st = "ok"
                          /\ stats'.completedHours = WeekAggregate(p.tasksRes.data)]_vars

\* the write-backs a step has issued
IssuedWriteBacks == {q \in procs' \ procs : q.kind \in {"sync", "insertWeek"}}

\* the write-back p is answered with an error in this step
WriteBackFails(p) ==
    /\ p \in procs /\ p.kind \in {"sync", "insertWeek"}
    /\ p \notin procs'
    /\ nFail' = nFail + 1

\* C18: the step of a refresh that issues a write-back (self-heal update or
\* new-week insert) ends with the locally computed hours in the in-memory
\* stat and the loading flag cleared while the write-back is still in flight;
\* a write-back that fails changes nothing in memory (stat, tasks, user,
\* loading flag).
C18_WriteBacksAreFireAndForget ==
    [][/\ \A p \in procs : JoinStep(p) =>
             \A q \in IssuedWriteBacks :
                 /\ stats'.present /\ stats'.completedHours = q.hours
                 /\ stats'.completedHours = WeekAggregate(TasksOf(p))
                 /\ ~isLoading'
       /\ \A p \in procs : WriteBackFails(p) =>
             /\ stats' = stats /\ tasks' = tasks /\ user' = user /\ isLoading' = isLoading]_vars

\* the insert of the new week's row has failed: the stat is in memory, the
\* view is rendered, and the table has no row for the week
C18_Witness ==
    /\ procs = {} /\ nFail = 1
    /\ stats.present /\ ~isLoading
    /\ dbStats = <<>>

\* ------------------------------------------------------------------------
\* Failures while a proof is verified and stored
\* ------------------------------------------------------------------------

\* the submission p receives its answer in this step and sends the update q
VerifyStep(p, q) ==
    /\ p \in procs /\ p.kind = "verify" /\ p.pc = "verifying"
    /\ q \in procs' /\ q.kind = "verify" /\ q.pid = p.pid /\ q.pc = "sent"

\* the update q of table tasks is applied in this step
UpdateApplied(q) ==
    /\ q \in procs /\ q.kind = "verify" /\ q.pc = "sent"
    /\ q \notin procs' /\ nFail' = nFail

\* t is the task the submission p was made for (a task created in the session
\* is given the id of its row when its insert is answered)
SubmittedTask(t, p) == t.id = p.id \/ t.id = DbId(p.id)

\* C19: when the proof is accepted and storing it fails, the task is VERIFIED
\* in the in-memory task list as soon as the handler has the answer, and
\* VERIFIED in table tasks once the update is applied.
C19_StoreFailureStillVerifies ==
    [][/\ \A p \in procs, q \in procs' :
             (VerifyStep(p, q) /\ q.status = "VERIFIED" /\ ~q.proofImage) =>
                 \A i \in 1..Len(tasks') :
                     SubmittedTask(tasks'[i], p) => tasks'[i].status = "VERIFIED"
       /\ \A q \in procs :
             (UpdateApplied(q) /\ q.status = "VERIFIED" /\ ~q.proofImage) =>
                 \A i \in 1..Len(dbTasks') :
                     SubmittedTask(dbTasks'[i], q) => dbTasks'[i].status = "VERIFIED"]_vars

\* C20: when the verification service fails, the submitted task is REJECTED
\* with the service-failure reason in memory as soon as the handler has the
\* answer (not VERIFIED, not VERIFYING) and in table tasks once the update is
\* applied, and the week's completed hours change neither in memory nor in
\* weekly_stats.
C20_ServiceFailureRejects ==
    [][/\ \A p \in procs, q \in procs' :
             (VerifyStep(p, q) /\ q.rejectionReason = "service") =>
                 /\ \A i \in 1..Len(tasks') :
                        SubmittedTask(tasks'[i], p) =>
                            /\ tasks'[i].status = "REJECTED"
                            /\ tasks'[i].rejectionReason = "service"
                 /\ stats'.completedHours = stats.completedHours
                 /\ dbStats' = dbStats
                 /\ \A u \in procs' \ procs : u.kind # "uch"
       /\ \A q \in procs :
             (UpdateApplied(q) /\ q.rejectionReason = "service") =>
                 /\ \A i \in 1..Len(dbTasks') :
                        SubmittedTask(dbTasks'[i], q) =>
                            /\ dbTasks'[i].status = "REJECTED"
                            /\ dbTasks'[i].rejectionReason = "service"
                 /\ dbStats' = dbStats]_vars

\* ------------------------------------------------------------------------
\* updateWeeklyGoal, and the sessions that load, reload and change the goal
\* ------------------------------------------------------------------------

\* the goals the user enters in the prompt of the Sidebar (tenths of an hour)
GoalValues == {0, 20}

\* updateWeeklyGoal up to the await of the update of table profiles (one
\* change of the goal at a time)
UpdateWeeklyGoal(newGoal) ==
    /\ UIVisible /\ Cardinality(procs) < MaxInFlight
    /\ \A q \in procs : q.kind # "goal"
    /\ user' = [user EXCEPT !.weeklyGoalHours = newGoal]
    /\ lsUser' = [user EXCEPT !.weeklyGoalHours = newGoal]
    /\ procs' = procs \cup {[NoProc EXCEPT !.pid = 60, !.kind = "goal", !.pc = "sent",
                                          !.status = "profiles", !.u = user, !.s = stats,
                                          !.goalHours = newGoal]}
    /\ UNCHANGED <<dbTasks, dbStats, dbHistory, dbGoal, stats, tasks, isLoading,
                   nCreated, nSubmits, nScreen, nReloads, nDeletes, nFail, fnIn, fnOut>>

\* update({ weekly_goal_hours }).eq('google_id', ...) is answered
ServeProfileUpdate(p, ok) ==
    /\ p \in procs /\ p.kind = "goal" /\ p.pc = "sent" /\ p.status = "profiles"
    /\ dbGoal' = IF ok THEN p.goalHours ELSE dbGoal
    /\ procs' = (procs \ {p}) \cup (IF p.orphan THEN {} ELSE {[p EXCEPT !.pc = "answered"]})
    /\ Fail(ok)
    /\ UNCHANGED <<dbTasks, dbStats, dbHistory, user, lsUser, stats, tasks, isLoading,
                   nCreated, nSubmits, nScreen, nReloads, nDeletes, fnIn, fnOut>>

\* updateWeeklyGoal after its first await: if (stats) setStats({ ...stats,
\* goalHours }) with the stats of its closure, and the update of weekly_stats
ResumeUpdateGoal(p) ==
    /\ p \in procs /\ p.kind = "goal" /\ p.pc = "answered"
    /\ stats' = IF p.s.present THEN [p.s EXCEPT !.goalHours = p.goalHours] ELSE stats
    /\ procs' = (procs \ {p}) \cup
                (IF p.s.present THEN {[p EXCEPT !.pc = "sent", !.status = "weekly_stats"]} ELSE {})
    /\ UNCHANGED <<dbTasks, dbStats, dbHistory, dbGoal, user, lsUser, tasks, isLoading,
                   nCreated, nSubmits, nScreen, nReloads, nDeletes, nFail, fnIn, fnOut>>

\* update({ goal_hours }).eq('user_id', ...).eq('week_id', ...)
ApplyGoal(rows, goalHours) == [i \in 1..Len(rows) |-> [rows[i] EXCEPT !.goalHours = goalHours]]

\* the update of weekly_stats that ends updateWeeklyGoal is answered
ServeGoalStatsUpdate(p, ok) ==
    /\ p \in procs /\ p.kind = "goal" /\ p.pc = "sent" /\ p.status = "weekly_stats"
    /\ dbStats' = IF ok THEN ApplyGoal(dbStats, p.goalHours) ELSE dbStats
    /\ procs' = procs \ {p}
    /\ Fail(ok)
    /\ UNCHANGED <<dbTasks, dbHistory, dbGoal, user, lsUser, stats, tasks, isLoading,
                   nCreated, nSubmits, nScreen, nReloads, nDeletes, fnIn, fnOut>>

NextGoal ==
    \/ \E p \in procs, ok \in BOOLEAN : ServeTasksRead(p, ok)
    \/ \E p \in procs, ok \in BOOLEAN : ServeStatsRead(p, ok)
    \/ \E p \in procs, profileOk \in BOOLEAN, historyOk \in BOOLEAN :
           FetchJoin(p, profileOk, historyOk)
    \/ \E p \in procs, ok \in BOOLEAN : ServeWriteBack(p, ok)
    \/ \E g \in GoalValues : UpdateWeeklyGoal(g)
    \/ \E p \in procs, ok \in BOOLEAN : ServeProfileUpdate(p, ok)
    \/ \E p \in procs : ResumeUpdateGoal(p)
    \/ \E p \in procs, ok \in BOOLEAN : ServeGoalStatsUpdate(p, ok)
    \/ Reload

SpecGoal == Init /\ [][NextGoal]_vars

\* C21: whenever a weekly stat is in memory, no call is in flight and no
\* request has failed, its goalHours is the user's weeklyGoalHours, which is
\* the goal persisted in table profiles.
C21_GoalPropagates ==
    (procs = {} /\ stats.present /\ user.present /\ nFail = 0) =>
        /\ stats.goalHours = user.weeklyGoalHours
        /\ user.weeklyGoalHours = dbGoal

\* ------------------------------------------------------------------------
\* The streak after a refresh
\* ------------------------------------------------------------------------

\* the streaks a refresh that ends with the stat obj can have computed: from
\* the history rows it read, or from none when its history read gave no data
RefreshStreaks(obj) ==
    {ComputeStreak(SessionZone, getCurrentWeekId, obj, dbHistory),
     ComputeStreak(SessionZone, getCurrentWeekId, obj, <<>>)}

\* C22: when a refresh ends, currentStreak of the user in memory and of the
\* copy in localStorage is the streak that refresh computed.
C22_StreakRecomputedOnRefresh ==
    [][\A p \in procs :
          (JoinStep(p) /\ user'.present) =>
              /\ user'.currentStreak \in RefreshStreaks(stats')
              /\ lsUser'.currentStreak = user'.currentStreak]_vars

\* ------------------------------------------------------------------------
\* Screen time
\* ------------------------------------------------------------------------

\* the hours submitted in the session (every submission reports the same hours)
SubmittedScreenHours == nScreen * (CHOOSE h \in ScreenHours : TRUE)

\* C23: once every call has settled, in a session without reload and without
\* a failed request, the screenTimeHours of the week, in memory and in every
\* persisted row, is its initial value (0) plus the hours submitted.
C23_ScreenTimeAccumulates ==
    (procs = {} /\ nFail = 0 /\ nReloads = 0 /\ stats.present) =>
        /\ stats.screenTimeHours = SubmittedScreenHours
        /\ \A i \in 1..Len(dbStats) : dbStats[i].screenTimeHours = SubmittedScreenHours

\* ------------------------------------------------------------------------
\* Refreshes whose reads may throw, with the answers every request gets in
\* the end
\* ------------------------------------------------------------------------

\* a read of the refresh p rejects: Promise.all rejects at once, the catch
\* block logs the error and the finally block clears the loading flag
FetchThrow(p) ==
    /\ p \in procs /\ p.kind = "fetch"
    /\ p.tasksRes = Pending \/ p.statsRes = Pending
    /\ procs' = procs \ {p}
    /\ isLoading' = FALSE
    /\ Fail(FALSE)
    /\ UNCHANGED <<dbTasks, dbStats, dbHistory, dbGoal, user, lsUser, stats, tasks,
                   nCreated, nSubmits, nScreen, nReloads, nDeletes, fnIn, fnOut>>

NextLoad ==
    \/ \E p \in procs, ok \in BOOLEAN : ServeTasksRead(p, ok)
    \/ \E p \in procs, ok \in BOOLEAN : ServeStatsRead(p, ok)
    \/ \E p \in procs, profileOk \in BOOLEAN, historyOk \in BOOLEAN :
           FetchJoin(p, profileOk, historyOk)
    \/ \E p \in procs : FetchThrow(p)
    \/ \E p \in procs, ok \in BOOLEAN : ServeWriteBack(p, ok)
    \/ Reload

\* every request is answered in the end, and a handler whose awaits are all
\* answered runs on; nothing makes a read throw or the user reload
FairLoad ==
    /\ WF_vars(\E p \in procs : ServeTasksRead(p, TRUE))
    /\ WF_vars(\E p \in procs : ServeStatsRead(p, TRUE))
    /\ WF_vars(\E p \in procs, profileOk \in BOOLEAN, historyOk \in BOOLEAN :
                  FetchJoin(p, profileOk, historyOk))
    /\ WF_vars(\E p \in procs : ServeWriteBack(p, TRUE))

SpecLoad == InitRefresh /\ [][NextLoad]_vars /\ FairLoad

\* the view "Syncing verified tasks..." is rendered
LoadingShown == user.present /\ (isLoading \/ ~stats.present)

FetchInFlight == \E p \in procs : p.kind = "fetch"

\* C24: whenever a fetchUserData call is in flight, there comes a moment at
\* which no call is in flight and the loading view is not shown to the
\* authenticated user, also when a read has thrown.
C24_LoadingEnds == FetchInFlight ~> (~FetchInFlight /\ ~LoadingShown)

\* ------------------------------------------------------------------------
\* The week record a refresh creates
\* ------------------------------------------------------------------------

\* C25: a refresh that ends while the week has no persisted row sets in
\* memory, and sends for insert, a stat with the current week identifier,
\* the sum of the durations of the tasks verified in the week's window as
\* completedHours, and screenTimeHours 0.
C25_NewWeekIsSeededFromTasks ==
    [][\A p \in procs :
          (JoinStep(p) /\ dbStats = <<>>) =>
              /\ stats'.present
              /\ stats'.weekId = getCurrentWeekId
              /\ stats'.completedHours = WeekAggregate(dbTasks)
              /\ stats'.screenTimeHours = 0
              /\ \E q \in IssuedWriteBacks :
                     q.kind = "insertWeek" /\ q.hours = WeekAggregate(dbTasks)]_vars

\* ------------------------------------------------------------------------
\* The end of a task creation
\* ------------------------------------------------------------------------

\* handleSaveTask p resumes after its insert in this step
CreateEnds(p) ==
    /\ p \in procs /\ p.kind = "create" /\ p.pc \in {"data", "error"}
    /\ p \notin procs'
    /\ nReloads' = nReloads

\* the entries of a task list that stand for the task created by p
EntriesOf(ts, p) == {i \in 1..Len(ts) : ts[i].id = p.id \/ ts[i].id = DbId(p.id)}

\* C26: when handleSaveTask resumes after a failed insert, the task list in
\* memory has no entry left for the new task and is otherwise unchanged;
\* after a successful insert it has exactly one entry for the task, under
\* the id of the persisted row.
C26_CreateSettles ==
    [][\A p \in procs :
          CreateEnds(p) =>
              IF p.pc = "error"
              THEN /\ EntriesOf(tasks', p) = {}
                   /\ tasks' = RemoveTask(tasks, p.id)
              ELSE /\ Cardinality(EntriesOf(tasks', p)) = 1
                   /\ \A i \in EntriesOf(tasks', p) : tasks'[i].id = DbId(p.id)]_vars

\* ------------------------------------------------------------------------
\* A verification and the refresh it starts
\* ------------------------------------------------------------------------

\* the persisted task was verified, with its proof stored, in this session
VerifiedInSession(t) == t.status = "VERIFIED" /\ t.completedAt = NowT /\ t.proofImage

\* C27: in a session that only submits proofs for tasks that were already
\* persisted (no creation, deletion, reload or failed request), once every
\* call has settled each task verified in the session is VERIFIED in memory,
\* and the completed hours in memory and in every persisted row are the sum
\* over the verified tasks of the week, that task included.
C27_VerifiedSurvivesRefresh ==
    (/\ procs = {} /\ stats.present
     /\ nFail = 0 /\ nReloads = 0 /\ nDeletes = 0 /\ nCreated = 0
     /\ \E i \in 1..Len(dbTasks) : VerifiedInSession(dbTasks[i])) =>
        /\ \A i \in 1..Len(dbTasks) :
              VerifiedInSession(dbTasks[i]) =>
                  \E j \in 1..Len(tasks) :
                      tasks[j].id = dbTasks[i].id /\ tasks[j].status = "VERIFIED"
        /\ stats.completedHours = WeekAggregate(dbTasks)
        /\ \A i \in 1..Len(dbStats) : dbStats[i].completedHours = WeekAggregate(dbTasks)

\* ------------------------------------------------------------------------
\* A proof submitted for a task that still carries its temporary id
\* ------------------------------------------------------------------------

\* id is the temporary id of a task created in the session
IsTempId(id) == \E n \in 1..MaxCreates : id = TempId(n)

\* the update q carries the outcome of an accepted and stored proof, or of a
\* proof the service rejected
PlainOutcome(q) ==
    \/ q.status = "VERIFIED" /\ q.proofImage
    \/ q.status = "REJECTED" /\ q.rejectionReason # "service"

\* C28: when a proof was submitted for a task under its temporary id, the
\* task has the outcome's status in memory as soon as the handler has the
\* answer, and when the update of table tasks is applied while the task's
\* row exists, the update is addressed to the id of a row and that row gets
\* the outcome's status.
C28_TempIdOutcomeReachesTask ==
    [][/\ \A p \in procs, q \in procs' :
             (VerifyStep(p, q) /\ IsTempId(p.id) /\ PlainOutcome(q)) =>
                 \A i \in 1..Len(tasks') :
                     SubmittedTask(tasks'[i], p) => tasks'[i].status = q.status
       /\ \A q \in procs :
             (/\ UpdateApplied(q) /\ IsTempId(q.id) /\ PlainOutcome(q)
              /\ \E i \in 1..Len(dbTasks) : dbTasks[i].id = DbId(q.id)) =>
                 /\ \E i \in 1..Len(dbTasks) : dbTasks[i].id = q.id
                 /\ \A i \in 1..Len(dbTasks') :
                        SubmittedTask(dbTasks'[i], q) => dbTasks'[i].status = q.status]_vars

\* ------------------------------------------------------------------------
\* handleLogout, and the sessions that end with it
\* ------------------------------------------------------------------------

\* handleLogout, from the Sidebar of the main view: the localStorage item is
\* removed and user, stats and tasks are cleared; the calls in flight go on
Logout ==
    /\ UIVisible
    /\ lsUser' = NoUser
    /\ user' = NoUser
    /\ stats' = NoStats
    /\ tasks' = <<>>
    /\ UNCHANGED <<dbTasks, dbStats, dbHistory, dbGoal, isLoading, procs, nCreated, nSubmits,
                   nScreen, nReloads, nDeletes, nFail, fnIn, fnOut>>

NextLogout ==
    \/ Next
    \/ Logout

SpecLogout == Init /\ [][NextLogout]_vars

\* the user has logged out
LoggedOut == ~user.present /\ ~lsUser.present

\* C29: a refresh that ends after the user has logged out leaves the session
\* empty: stats stay absent, the task list stays empty, the user stays null
\* and the localStorage item stays absent.
C29_LogoutStaysEmpty ==
    [][\A p \in procs :
          (JoinStep(p) /\ LoggedOut) =>
              /\ ~stats'.present
              /\ tasks' = <<>>
              /\ ~user'.present
              /\ ~lsUser'.present]_vars

\* ------------------------------------------------------------------------
\* A refresh whose read of table tasks gave no data
\* ------------------------------------------------------------------------

\* C30: when a refresh joins a failed read of table tasks with a current-week
\* row that was read, the completed hours it puts in memory are not below
\* those of the row, and it issues no write-back with fewer hours than the
\* row has.
C30_MissingListIsNotZeroHours ==
    [][\A p \in procs :
          (JoinStep(p) /\ p.tasksRes.st = "error" /\ p.statsRes.st = "ok") =>
              /\ stats'.completedHours >= p.statsRes.data.completedHours
              /\ \A q \in IssuedWriteBacks :
                    q.hours >= p.statsRes.data.completedHours]_vars

====
